---- MODULE Spec2Model ----
(***************************************************************************)
(* Model of the waterfall SFU conference engine:                           *)
(*   - the simulcast layer selection of a published track                  *)
(*     (pkg/conference/participant/track.go),                              *)
(*   - the peer-event handlers of the tracker-based conference             *)
(*     (pkg/conference/peer_message_processing.go),                        *)
(*   - the key-frame regulation of the flat conference                     *)
(*     (pkg/conference/peer_message_processor.go).                         *)
(***************************************************************************)
EXTENDS Integers, Sequences, FiniteSets, TLC

VARIABLES
  \* Layer selection called on its own: the track, the requested size, and
  \* the values returned by calculateDesiredLayer and GetOptimalLayer.
  fnTrack, fnReq, fnDesired, fnLayer,
  \* Tracker-based conference: the participant registry, the peers that were
  \* created and whose events may still be queued, the tracker's published
  \* tracks, the stored stream metadata, and what the last handler emitted.
  participants, peers, publishedTracks, streamsMetadata, sent, signals, last,
  \* Each peer's data channel, and the participants whose last negotiate
  \* offer could not be sent.
  dataChannel, lostOffers,
  \* The pongs waiting in each participant's Pong channel.
  pong,
  \* Flat conference: the clock, each participant's publishedTracks map, the
  \* upstream RTCP writes and the RTCP events handled so far (for each, the
  \* publishers whose gate was open and those WriteRTCP was called on).
  now, flatPublished, rtcpWrites, rtcpSeen

layerVars == <<fnTrack, fnReq, fnDesired, fnLayer>>
channelVars == <<dataChannel, lostOffers, pong>>
confVars ==
  <<participants, peers, publishedTracks, streamsMetadata, sent, signals, last,
    channelVars>>
flatVars == <<now, flatPublished, rtcpWrites, rtcpSeen>>
vars == <<layerVars, confVars, flatVars>>

(***************************************************************************)
(* Bounds of the model.                                                    *)
(***************************************************************************)
\* Largest small width tried by the layer selection.
MaxDim == 3
\* Longest list of available layers tried by the layer selection.
MaxLayers == 2

(***************************************************************************)
(* Program constants.                                                      *)
(***************************************************************************)
\* Largest magnitude up to which every int is a float32 (24-bit significand).
F32Exact == 16777216

(***************************************************************************)
(* Simulcast layers and track kinds (webrtc_ext.SimulcastLayer,            *)
(* webrtc.RTPCodecType).                                                   *)
(***************************************************************************)
SimulcastLayerNone == "None"
SimulcastLayerLow == "Low"
SimulcastLayerMedium == "Medium"
SimulcastLayerHigh == "High"
SimulcastLayers ==
  {SimulcastLayerNone, SimulcastLayerLow, SimulcastLayerMedium, SimulcastLayerHigh}

RTPCodecTypeAudio == "audio"
RTPCodecTypeVideo == "video"
Kinds == {RTPCodecTypeAudio, RTPCodecTypeVideo}

Range(s) == {s[i] : i \in DOMAIN s}
SeqsUpTo(S, n) == UNION {[1..k -> S] : k \in 0..n}
Min(S) == CHOOSE x \in S : \A y \in S : x <= y

(***************************************************************************)
(* track.go: calculateDesiredLayer                                         *)
(***************************************************************************)
\* float32(n) of a non-negative int below 2^25: exact up to 2^24, above it
\* rounded to the nearest multiple of two, ties to the even significand.
ToFloat32(n) ==
  IF n <= F32Exact THEN n
  ELSE LET q == n \div 2
           r == n % 2
       IN IF r = 0 THEN n
          ELSE IF q % 2 = 0 THEN 2 * q ELSE 2 * (q + 1)

\* float32 quotient full/desired compared with the small integer k, for
\* positive float32 values: the correctly rounded quotient of two float32
\* values is above k (1 or 2) exactly when the real quotient is.
RatioAtMost(full, desired, k) == full <= k * desired

\* The variant without the zero-size check: float32 division by zero gives
\* +Inf (or NaN for 0/0), which is above every threshold.
calculateDesiredLayerNoZeroCheck(fullWidth, fullHeight, desiredWidth, desiredHeight) ==
  LET fullSize == fullWidth + fullHeight
      desiredSize == desiredWidth + desiredHeight
  IN IF desiredSize = 0 THEN SimulcastLayerLow
     ELSE IF RatioAtMost(ToFloat32(fullSize), ToFloat32(desiredSize), 1)
          THEN SimulcastLayerHigh
     ELSE IF RatioAtMost(ToFloat32(fullSize), ToFloat32(desiredSize), 2)
          THEN SimulcastLayerMedium
     ELSE SimulcastLayerLow

\* The variant that divides the desired size by the full size.
calculateDesiredLayerInverted(fullWidth, fullHeight, desiredWidth, desiredHeight) ==
  LET fullSize == fullWidth + fullHeight
      desiredSize == desiredWidth + desiredHeight
  IN IF fullSize = 0 \/ desiredSize = 0 THEN SimulcastLayerLow
     ELSE IF RatioAtMost(ToFloat32(desiredSize), ToFloat32(fullSize), 1)
          THEN SimulcastLayerHigh
     ELSE IF RatioAtMost(ToFloat32(desiredSize), ToFloat32(fullSize), 2)
          THEN SimulcastLayerMedium
     ELSE SimulcastLayerLow

calculateDesiredLayer(fullWidth, fullHeight, desiredWidth, desiredHeight) ==
  LET fullSize == fullWidth + fullHeight
      desiredSize == desiredWidth + desiredHeight
  IN IF fullSize = 0 \/ desiredSize = 0 THEN SimulcastLayerLow
     ELSE IF RatioAtMost(ToFloat32(fullSize), ToFloat32(desiredSize), 1)
          THEN SimulcastLayerHigh
     ELSE IF RatioAtMost(ToFloat32(fullSize), ToFloat32(desiredSize), 2)
          THEN SimulcastLayerMedium
     ELSE SimulcastLayerLow

(***************************************************************************)
(* track.go: PublishedTrack.GetOptimalLayer                                *)
(***************************************************************************)
\* slices.IndexFunc(layers, == layer): first index holding layer, or -1.
IndexFunc(layers, layer) ==
  IF \E i \in DOMAIN layers : layers[i] = layer
  THEN Min({i \in DOMAIN layers : layers[i] = layer})
  ELSE -1

\* A priority list that prefers the low layer to the medium one.
LayerPriorityLowFirst(desiredLayer) ==
  <<desiredLayer, SimulcastLayerLow, SimulcastLayerMedium, SimulcastLayerHigh>>

\* The order in which GetOptimalLayer tries the layers.
LayerPriority(desiredLayer) ==
  <<desiredLayer, SimulcastLayerMedium, SimulcastLayerLow, SimulcastLayerHigh>>

GetOptimalLayer(p, requestedWidth, requestedHeight) ==
  IF p.Kind = RTPCodecTypeAudio \/ Len(p.Layers) = 0
  THEN SimulcastLayerNone
  ELSE LET desiredLayer == calculateDesiredLayer(p.Metadata.MaxWidth,
                             p.Metadata.MaxHeight, requestedWidth, requestedHeight)
           priority == LayerPriority(desiredLayer)
           found == {i \in DOMAIN priority : IndexFunc(p.Layers, priority[i]) # -1}
       IN IF found = {}
          THEN SimulcastLayerLow
          ELSE p.Layers[IndexFunc(p.Layers, priority[Min(found)])]

(***************************************************************************)
(* Layer selection on its own: every track and requested size of the       *)
(* bounded input sets, then the two functions applied to them.             *)
(***************************************************************************)
Pending == "pending"

\* Widths and heights tried: the small ones and the first ints around the
\* float32 significand.
Widths == (0..MaxDim) \cup {F32Exact, F32Exact + 1}
Heights == {0, 1}

TrackInputs ==
  [Kind : Kinds,
   Layers : SeqsUpTo(SimulcastLayers, MaxLayers),
   Metadata : [MaxWidth : Widths, MaxHeight : Heights]]
ReqInputs == [Width : Widths, Height : Heights]

LayerIdle ==
  /\ fnTrack = [Kind |-> RTPCodecTypeAudio, Layers |-> <<>>,
                Metadata |-> [MaxWidth |-> 0, MaxHeight |-> 0]]
  /\ fnReq = [Width |-> 0, Height |-> 0]
  /\ fnDesired = Pending
  /\ fnLayer = Pending

LayerInit ==
  /\ fnTrack \in TrackInputs
  /\ fnReq \in ReqInputs
  /\ fnDesired = Pending
  /\ fnLayer = Pending

CallCalculateDesiredLayer ==
  /\ fnDesired = Pending
  /\ fnDesired' = calculateDesiredLayer(fnTrack.Metadata.MaxWidth,
                     fnTrack.Metadata.MaxHeight, fnReq.Width, fnReq.Height)
  /\ UNCHANGED <<fnTrack, fnReq, fnLayer>>
  /\ UNCHANGED <<confVars, flatVars>>

CallGetOptimalLayer ==
  /\ fnLayer = Pending
  /\ fnLayer' = GetOptimalLayer(fnTrack, fnReq.Width, fnReq.Height)
  /\ UNCHANGED <<fnTrack, fnReq, fnDesired>>
  /\ UNCHANGED <<confVars, flatVars>>

(***************************************************************************)
(* Tracker-based conference: identities, tracks, messages.                 *)
(***************************************************************************)
\* Longest unsubscribe list and longest subscribe list of one
\* track_subscription message.
MaxUnsubscribe == 1
MaxSubscribe == 2

\* participant.ID values of the peers that may join the call.
PIDs == {"alice", "bob"}
\* Track ids; the kind is part of the TrackInfo the peer publishes. A track
\* id is made by the client that publishes the track, so only that client's
\* peer reports it as published or failed.
TrackIDs == {"a1", "v1"}
KindOf(trackID) == IF trackID = "a1" THEN RTPCodecTypeAudio ELSE RTPCodecTypeVideo
PublisherOf(trackID) == IF trackID = "a1" THEN "alice" ELSE "bob"

\* participant.ID of a peer: the user, the device and the call.
ID(p) ==
  IF p = "alice"
  THEN [UserID |-> "@alice:example.org", DeviceID |-> "ALICEPHONE", CallID |-> "call-1"]
  ELSE [UserID |-> "@bob:example.org", DeviceID |-> "BOBLAPTOP", CallID |-> "call-2"]
\* Participant.RemoteSessionID: the session the invite came from.
RemoteSessionID(p) == IF p = "alice" THEN "session-a" ELSE "session-b"

\* Participant.AsMatrixRecipient
AsMatrixRecipient(p) ==
  [UserID |-> ID(p).UserID,
   DeviceID |-> ID(p).DeviceID,
   CallID |-> ID(p).CallID,
   RemoteSessionID |-> RemoteSessionID(p)]

\* A message given to matrixWorker.sendSignalingMessage, with the registry
\* as it was when the message was given.
Signal(type, recipient, reason, registry) ==
  [type |-> type, to |-> recipient, reason |-> reason, registry |-> registry]

\* event.CallDataType of a negotiate message: offer, answer, or another one.
CallDataTypeOffer == "offer"
CallDataTypeAnswer == "answer"
CallDataTypes == {CallDataTypeOffer, CallDataTypeAnswer, "pranswer"}

\* The types of the events of data-channel messages, and the two kinds of
\* message the type switch does not dispatch.
FocusCallTrackSubscription == "track_subscription"
FocusCallNegotiate == "negotiate"
FocusCallPong == "pong"
FocusCallSDPStreamMetadataChanged == "metadata_changed"
MalformedJSON == "malformed JSON"
UnknownType == "unknown"
\* The messages about tracks, sessions and metadata, and the keepalive ones.
ControlMessageTypes ==
  {MalformedJSON, UnknownType, FocusCallTrackSubscription, FocusCallNegotiate,
   FocusCallSDPStreamMetadataChanged}
KeepaliveMessageTypes == {FocusCallPong}

\* Room in a participant's Pong channel: a single slot.
PongCapacity == 1

\* A peer's data channel: not open; open, with DataChannelAvailable still
\* queued; open, with DataChannelAvailable handled.
DataChannelClosed == "closed"
DataChannelOpen == "open"
DataChannelAnnounced == "announced"

\* A track id the tracker does not hold, a participant without a
\* subscription, and a track the stream metadata does not name (a named
\* track with metadata m is <<m>>).
NoSub == [Subscribed |-> FALSE, Layer |-> "None", Width |-> 0, Height |-> 0]
EmptySubscriptions == [p \in PIDs |-> NoSub]
NoTrack ==
  [Published |-> FALSE, Owner |-> "none", Kind |-> "none", Layers |-> <<>>,
   Metadata |-> [MaxWidth |-> 0, MaxHeight |-> 0],
   Subscriptions |-> EmptySubscriptions]
NoEntry == <<>>
\* A JSON key that is absent; a present number n is <<n>>.
Missing == <<>>

ZeroMetadata == [MaxWidth |-> 0, MaxHeight |-> 0]
\* Track metadata carried by stream metadata.
MetadataValues == {ZeroMetadata, [MaxWidth |-> 2, MaxHeight |-> 2]}
\* event.CallSDPStreamMetadata of a message, flattened to tracks: the tracks
\* it names and their sizes (metadata is only set for video tracks).
StreamMetadataInputs ==
  {m \in [TrackIDs -> {<<v>> : v \in MetadataValues} \cup {NoEntry}] :
     \A t \in TrackIDs : KindOf(t) = RTPCodecTypeAudio => m[t] = NoEntry}
NoStreamMetadata == [t \in TrackIDs |-> NoEntry]

\* Sizes of a subscribe entry as they are on the wire; a key may be missing.
WireSizes ==
  {[Width |-> Missing, Height |-> Missing],
   [Width |-> <<2>>, Height |-> <<2>>]}
\* Subscribe entries tried: a size is only asked of a video track.
SubscribeEntries ==
  {e \in {[TrackID |-> t, Width |-> z.Width, Height |-> z.Height] :
            t \in TrackIDs, z \in WireSizes} :
     KindOf(e.TrackID) = RTPCodecTypeAudio => e.Width = Missing}
UnsubscribeEntries == [TrackID : TrackIDs]
\* The messages tried name a track at most once in each of their lists.
NoRepeat(list) ==
  \A i, j \in DOMAIN list : i # j => list[i].TrackID # list[j].TrackID
TrackSubscriptionInputs ==
  [Subscribe : {l \in SeqsUpTo(SubscribeEntries, MaxSubscribe) : NoRepeat(l)},
   Unsubscribe : {l \in SeqsUpTo(UnsubscribeEntries, MaxUnsubscribe) : NoRepeat(l)}]

\* encoding/json into an int field: a missing key leaves the zero value.
IntField(v) == IF v = Missing THEN 0 ELSE v[1]

(***************************************************************************)
(* Conference helpers and the tracker.                                     *)
(***************************************************************************)
\* c.getParticipant(sender) # nil
getParticipant(sender) == sender \in participants

\* streamIntoTrackMetadata(c.streamsMetadata)[trackID]: a track without
\* metadata reads as the zero TrackMetadata.
streamIntoTrackMetadata(streams, trackID) ==
  IF streams[trackID] = NoEntry THEN ZeroMetadata ELSE streams[trackID][1]

\* Tracker.AddPublishedTrack: a new track is inserted with the published
\* layer; a further layer of a known track is added to its layers.
AddPublishedTrack(tracks, owner, trackID, layer, metadata) ==
  IF tracks[trackID] = NoTrack
  THEN [tracks EXCEPT ![trackID] =
          [Published |-> TRUE, Owner |-> owner, Kind |-> KindOf(trackID),
           Layers |-> <<layer>>,
           Metadata |-> metadata, Subscriptions |-> EmptySubscriptions]]
  ELSE IF IndexFunc(tracks[trackID].Layers, layer) = -1
       THEN [tracks EXCEPT ![trackID].Layers = Append(@, layer)]
       ELSE tracks

\* Tracker.RemovePublishedTrack: the track goes with all its subscriptions.
RemovePublishedTrack(tracks, trackID) == [tracks EXCEPT ![trackID] = NoTrack]

\* Tracker.Subscribe: the new tracker and the error, if any.
Subscribe(tracks, subscriber, trackID, requirements) ==
  IF tracks[trackID] = NoTrack
  THEN [err |-> "NotFound", tracks |-> tracks]
  ELSE LET t == tracks[trackID]
           sub == [Subscribed |-> TRUE,
                   Layer |-> GetOptimalLayer(t, requirements.MaxWidth,
                                             requirements.MaxHeight),
                   Width |-> requirements.MaxWidth,
                   Height |-> requirements.MaxHeight]
       IN IF /\ t.Subscriptions[subscriber] # NoSub
             /\ t.Subscriptions[subscriber].Width = requirements.MaxWidth
             /\ t.Subscriptions[subscriber].Height = requirements.MaxHeight
          THEN [err |-> "AlreadySubscribed", tracks |-> tracks]
          ELSE [err |-> "nil",
                tracks |-> [tracks EXCEPT ![trackID].Subscriptions[subscriber] = sub]]

\* Tracker.Unsubscribe: idempotent.
Unsubscribe(tracks, subscriber, trackID) ==
  IF tracks[trackID] = NoTrack THEN tracks
  ELSE [tracks EXCEPT ![trackID].Subscriptions[subscriber] = NoSub]

\* The tracker part of c.removeParticipant: the participant's tracks go, and
\* so do its subscriptions to the other tracks.
RemoveParticipantFromTracker(tracks, p) ==
  [t \in TrackIDs |->
     IF tracks[t] = NoTrack \/ tracks[t].Owner = p THEN NoTrack
     ELSE [tracks[t] EXCEPT !.Subscriptions[p] = NoSub]]

\* c.updateMetadata on the stored stream metadata: the named tracks take the
\* new sizes.
updateMetadata(streams, metadata) ==
  [t \in TrackIDs |-> IF metadata[t] = NoEntry THEN streams[t] ELSE metadata[t]]

\* c.updateMetadata on the tracker: a published track named by the metadata
\* takes the new size and its subscriptions reselect their layer.
UpdateTrackerMetadata(tracks, metadata) ==
  [t \in TrackIDs |->
     IF tracks[t] = NoTrack \/ metadata[t] = NoEntry THEN tracks[t]
     ELSE LET nt == [tracks[t] EXCEPT !.Metadata = metadata[t][1]]
          IN [nt EXCEPT !.Subscriptions =
                [p \in PIDs |->
                   IF nt.Subscriptions[p] = NoSub THEN NoSub
                   ELSE [nt.Subscriptions[p] EXCEPT !.Layer =
                           GetOptimalLayer(nt, nt.Subscriptions[p].Width,
                                           nt.Subscriptions[p].Height)]]]]

\* c.getAvailableStreamsFor(p): the tracks published by the others.
getAvailableStreamsFor(tracks, p) ==
  {t \in TrackIDs : tracks[t] # NoTrack /\ tracks[t].Owner # p}

MetadataChanged(tracks, p) ==
  [to |-> p, type |-> "metadata_changed", description |-> "none",
   streams |-> getAvailableStreamsFor(tracks, p)]
Negotiate(tracks, p, description) ==
  [to |-> p, type |-> "negotiate", description |-> description,
   streams |-> getAvailableStreamsFor(tracks, p)]

\* c.resendMetadataToAllExcept(sender): the messages it sends.
resendMetadataToAllExcept(members, tracks, sender) ==
  {MetadataChanged(tracks, p) : p \in members \ {sender}}

(***************************************************************************)
(* The conference's handlers of peer events.                               *)
(***************************************************************************)
\* Reasons a peer gives for leaving.
Reasons == {"user_hangup", "keepalive_timeout"}
\* Layers a peer publishes a track with: audio has no simulcast, the video
\* is sent in a low and a high layer.
PublishLayers(trackID) ==
  IF KindOf(trackID) = RTPCodecTypeAudio THEN {SimulcastLayerNone}
  ELSE {SimulcastLayerLow, SimulcastLayerHigh}

\* What the last handler was given: the event, its sender, the branch the
\* handler took and, for a data-channel message, the parsed content.
LastWith(kind, sender, detail, input) ==
  [kind |-> kind, sender |-> sender, detail |-> detail, input |-> input]
Last(kind, sender, detail) == LastWith(kind, sender, detail, "none")

ConfIdle ==
  /\ participants = {}
  /\ peers = {}
  /\ publishedTracks = [t \in TrackIDs |-> NoTrack]
  /\ streamsMetadata = NoStreamMetadata
  /\ sent = {}
  /\ signals = {}
  /\ last = Last("Init", "none", "none")
  /\ dataChannel = [p \in PIDs |-> DataChannelClosed]
  /\ lostOffers = {}
  /\ pong = [p \in PIDs |-> 0]

\* A call invite of a new participant: its peer is created, the participant
\* is registered and the SDP answer goes out over signaling.
Invite(p) ==
  /\ p \notin participants
  /\ participants' = participants \cup {p}
  /\ peers' = peers \cup {p}
  /\ signals' = {Signal("Answer", AsMatrixRecipient(p), "none", participants \cup {p})}
  /\ sent' = {}
  /\ last' = Last("Invite", p, "none")
  /\ dataChannel' = [dataChannel EXCEPT ![p] = DataChannelClosed]
  /\ lostOffers' = lostOffers \ {p}
  /\ pong' = [pong EXCEPT ![p] = 0]
  /\ UNCHANGED <<publishedTracks, streamsMetadata>>
  /\ UNCHANGED <<layerVars, flatVars>>

\* The variant that drops the sender of an event it does not handle.
IgnoredRemovingSender(kind, sender, detail) ==
  /\ participants' = participants \ {sender}
  /\ sent' = {}
  /\ signals' = {}
  /\ last' = Last(kind, sender, detail)
  /\ UNCHANGED <<peers, publishedTracks, streamsMetadata>>
  /\ UNCHANGED <<layerVars, flatVars>>
  /\ UNCHANGED channelVars

\* A handler that returns before doing anything.
Ignored(kind, sender, detail) ==
  /\ sent' = {}
  /\ signals' = {}
  /\ last' = Last(kind, sender, detail)
  /\ UNCHANGED <<participants, peers, publishedTracks, streamsMetadata>>
  /\ UNCHANGED <<layerVars, flatVars>>
  /\ UNCHANGED channelVars

\* The variant that does not look the sender up in the registry.
processLeftTheCallMessageNoLookup(sender, reason) ==
  LET registry == participants \ {sender}
  IN /\ participants' = registry
     /\ publishedTracks' = RemoveParticipantFromTracker(publishedTracks, sender)
     /\ lostOffers' = lostOffers \ {sender}
     /\ signals' = {Signal("Hangup", AsMatrixRecipient(sender), reason, registry)}
     /\ sent' = {}
     /\ last' = Last("LeftCall", sender, reason)
     /\ UNCHANGED <<peers, streamsMetadata, dataChannel, pong>>
     /\ UNCHANGED <<layerVars, flatVars>>

\* The variant that sends the Hangup before it removes the participant.
processLeftTheCallMessageHangupFirst(sender, reason) ==
  IF ~getParticipant(sender)
  THEN Ignored("LeftCall", sender, "no participant")
  ELSE LET registry == participants \ {sender}
       IN /\ signals' = {Signal("Hangup", AsMatrixRecipient(sender), reason, participants)}
          /\ participants' = registry
          /\ publishedTracks' = RemoveParticipantFromTracker(publishedTracks, sender)
          /\ lostOffers' = lostOffers \ {sender}
          /\ sent' = {}
          /\ last' = Last("LeftCall", sender, reason)
          /\ UNCHANGED <<peers, streamsMetadata, dataChannel, pong>>
          /\ UNCHANGED <<layerVars, flatVars>>

\* c.removeParticipant(p.ID), then the Hangup to p.AsMatrixRecipient().
processLeftTheCallMessage(sender, reason) ==
  IF ~getParticipant(sender)
  THEN Ignored("LeftCall", sender, "no participant")
  ELSE LET registry == participants \ {sender}
       IN /\ participants' = registry
          /\ publishedTracks' = RemoveParticipantFromTracker(publishedTracks, sender)
          /\ lostOffers' = lostOffers \ {sender}
          /\ signals' = {Signal("Hangup", AsMatrixRecipient(sender), reason, registry)}
          /\ sent' = {}
          /\ last' = Last("LeftCall", sender, reason)
          /\ UNCHANGED <<peers, streamsMetadata, dataChannel, pong>>
          /\ UNCHANGED <<layerVars, flatVars>>

processNewTrackPublishedMessage(sender, trackID, layer) ==
  LET trackMetadata == streamIntoTrackMetadata(streamsMetadata, trackID)
      tracks == AddPublishedTrack(publishedTracks, sender, trackID, layer, trackMetadata)
  IN /\ publishedTracks' = tracks
     /\ sent' = resendMetadataToAllExcept(participants, tracks, sender)
     /\ signals' = {}
     /\ last' = Last("NewTrackPublished", sender, "none")
     /\ UNCHANGED <<participants, peers, streamsMetadata>>
     /\ UNCHANGED <<layerVars, flatVars>>
     /\ UNCHANGED channelVars

processPublishedTrackFailedMessage(sender, trackID) ==
  LET tracks == RemovePublishedTrack(publishedTracks, trackID)
  IN /\ publishedTracks' = tracks
     /\ sent' = resendMetadataToAllExcept(participants, tracks, sender)
     /\ signals' = {}
     /\ last' = Last("PublishedTrackFailed", sender, "none")
     /\ UNCHANGED <<participants, peers, streamsMetadata>>
     /\ UNCHANGED <<layerVars, flatVars>>
     /\ UNCHANGED channelVars

\* The unsubscribe loop of processTrackSubscriptionMessage.
RECURSIVE UnsubscribeAll(_, _, _)
UnsubscribeAll(tracks, p, list) ==
  IF list = <<>> THEN tracks
  ELSE UnsubscribeAll(Unsubscribe(tracks, p, Head(list).TrackID), p, Tail(list))

\* The variant that stops the batch at the first subscribe that fails.
RECURSIVE SubscribeAllStopOnError(_, _, _)
SubscribeAllStopOnError(tracks, p, list) ==
  IF list = <<>> THEN tracks
  ELSE LET track == Head(list)
           requirements == [MaxWidth |-> IntField(track.Width),
                            MaxHeight |-> IntField(track.Height)]
           result == Subscribe(tracks, p, track.TrackID, requirements)
       IN IF result.err # "nil" THEN tracks
          ELSE SubscribeAllStopOnError(result.tracks, p, Tail(list))

\* The subscribe loop of processTrackSubscriptionMessage: a failed entry is
\* logged and the loop continues.
RECURSIVE SubscribeAll(_, _, _)
SubscribeAll(tracks, p, list) ==
  IF list = <<>> THEN tracks
  ELSE LET track == Head(list)
           requirements == [MaxWidth |-> IntField(track.Width),
                            MaxHeight |-> IntField(track.Height)]
       IN SubscribeAll(Subscribe(tracks, p, track.TrackID, requirements).tracks,
                       p, Tail(list))

\* The variant that handles the subscribe commands first.
TrackSubscriptionLoopsSubscribeFirst(tracks, p, msg) ==
  UnsubscribeAll(SubscribeAll(tracks, p, msg.Subscribe), p, msg.Unsubscribe)

\* The two loops of processTrackSubscriptionMessage: first the unsubscribe
\* commands, then the subscribe commands.
TrackSubscriptionLoops(tracks, p, msg) ==
  SubscribeAll(UnsubscribeAll(tracks, p, msg.Unsubscribe), p, msg.Subscribe)

processTrackSubscriptionMessage(p, msg) ==
  /\ publishedTracks' = TrackSubscriptionLoops(publishedTracks, p, msg)
  /\ sent' = {}
  /\ signals' = {}
  /\ last' = LastWith("DataChannelMessage", p, "track_subscription", msg)
  /\ UNCHANGED <<participants, peers, streamsMetadata>>
  /\ UNCHANGED <<layerVars, flatVars>>
  /\ UNCHANGED channelVars

\* applied: whether the peer applied the SDP (ProcessSDPOffer or
\* ProcessSDPAnswer returned no error).
\* The variant that answers whatever the description type and the outcome.
NegotiateReplyAlways(tracks, p, descriptionType, applied) ==
  {Negotiate(tracks, p, CallDataTypeAnswer)}

\* The switch of processNegotiateMessage: the messages it sends to p.
NegotiateReply(tracks, p, descriptionType, applied) ==
  IF descriptionType = CallDataTypeOffer
  THEN IF ~applied THEN {} ELSE {Negotiate(tracks, p, CallDataTypeAnswer)}
  ELSE {}

processNegotiateMessage(p, descriptionType, metadata, applied) ==
  LET tracks == UpdateTrackerMetadata(publishedTracks, metadata)
  IN /\ streamsMetadata' = updateMetadata(streamsMetadata, metadata)
     /\ publishedTracks' = tracks
     /\ sent' = NegotiateReply(tracks, p, descriptionType, applied)
     /\ signals' = {}
     /\ last' = LastWith("DataChannelMessage", p,
                         IF metadata = NoStreamMetadata THEN "negotiate"
                         ELSE "negotiate with stream metadata",
                         [Type |-> descriptionType, Applied |-> applied])
     /\ UNCHANGED <<participants, peers>>
     /\ UNCHANGED <<layerVars, flatVars>>
     /\ UNCHANGED channelVars

processMetadataMessage(sender, metadata) ==
  LET tracks == UpdateTrackerMetadata(publishedTracks, metadata)
  IN /\ streamsMetadata' = updateMetadata(streamsMetadata, metadata)
     /\ publishedTracks' = tracks
     /\ sent' = resendMetadataToAllExcept(participants, tracks, sender)
     /\ signals' = {}
     /\ last' = Last("DataChannelMessage", sender, "metadata_changed")
     /\ UNCHANGED <<participants, peers>>
     /\ UNCHANGED <<layerVars, flatVars>>
     /\ UNCHANGED channelVars

processNewICECandidateMessage(sender) ==
  IF ~getParticipant(sender)
  THEN Ignored("NewICECandidate", sender, "no participant")
  ELSE /\ signals' = {Signal("IceCandidates", AsMatrixRecipient(sender), "none",
                              participants)}
       /\ sent' = {}
       /\ last' = Last("NewICECandidate", sender, "none")
       /\ UNCHANGED <<participants, peers, publishedTracks, streamsMetadata>>
       /\ UNCHANGED <<layerVars, flatVars>>
       /\ UNCHANGED channelVars

processICEGatheringCompleteMessage(sender) ==
  IF ~getParticipant(sender)
  THEN Ignored("ICEGatheringComplete", sender, "no participant")
  ELSE /\ signals' = {Signal("CandidatesGatheringFinished", AsMatrixRecipient(sender),
                              "none", participants)}
       /\ sent' = {}
       /\ last' = Last("ICEGatheringComplete", sender, "none")
       /\ UNCHANGED <<participants, peers, publishedTracks, streamsMetadata>>
       /\ UNCHANGED <<layerVars, flatVars>>
       /\ UNCHANGED channelVars

\* The variant that waits for room in the channel.
processPongMessageBlocking(p) ==
  /\ pong[p] < PongCapacity
  /\ pong' = [pong EXCEPT ![p] = @ + 1]
  /\ sent' = {}
  /\ signals' = {}
  /\ last' = LastWith("DataChannelMessage", p, "pong", "delivered")
  /\ UNCHANGED <<participants, peers, publishedTracks, streamsMetadata,
                 dataChannel, lostOffers>>
  /\ UNCHANGED <<layerVars, flatVars>>

\* select { case p.Pong <- participant.Pong{}: default: }
processPongMessage(p) ==
  /\ pong' = IF pong[p] < PongCapacity THEN [pong EXCEPT ![p] = @ + 1] ELSE pong
  /\ sent' = {}
  /\ signals' = {}
  /\ last' = LastWith("DataChannelMessage", p, "pong",
                      IF pong[p] < PongCapacity THEN "delivered" ELSE "dropped")
  /\ UNCHANGED <<participants, peers, publishedTracks, streamsMetadata,
                 dataChannel, lostOffers>>
  /\ UNCHANGED <<layerVars, flatVars>>

\* Peer.SendOverDataChannel fails before the data channel is open.
SendOverDataChannel(p) == dataChannel[p] # DataChannelClosed

\* Participant.SendDataChannelMessage: whether it returns no error. A message
\* that cannot be sent is not kept.
SendDataChannelMessage(p) == SendOverDataChannel(p)

processRenegotiationRequiredMessage(sender) ==
  IF ~getParticipant(sender)
  THEN Ignored("RenegotiationRequired", sender, "no participant")
  ELSE /\ sent' = {Negotiate(publishedTracks, sender, CallDataTypeOffer)}
       /\ lostOffers' = IF SendDataChannelMessage(sender)
                        THEN lostOffers \ {sender}
                        ELSE lostOffers \cup {sender}
       /\ signals' = {}
       /\ last' = Last("RenegotiationRequired", sender, "none")
       /\ UNCHANGED <<participants, peers, publishedTracks, streamsMetadata,
                      dataChannel, pong>>
       /\ UNCHANGED <<layerVars, flatVars>>

\* The variant that tells every participant.
processDataChannelAvailableMessageToAll(sender) ==
  /\ sent' = {MetadataChanged(publishedTracks, p) : p \in participants}
  /\ signals' = {}
  /\ last' = Last("DataChannelAvailable", sender,
                  IF getParticipant(sender) THEN "none" ELSE "no participant")
  /\ UNCHANGED <<participants, peers, publishedTracks, streamsMetadata,
                 lostOffers, pong>>
  /\ UNCHANGED <<layerVars, flatVars>>

processDataChannelAvailableMessage(sender) ==
  IF ~getParticipant(sender)
  THEN /\ sent' = {}
       /\ signals' = {}
       /\ last' = Last("DataChannelAvailable", sender, "no participant")
       /\ UNCHANGED <<participants, peers, publishedTracks, streamsMetadata,
                      lostOffers, pong>>
       /\ UNCHANGED <<layerVars, flatVars>>
  ELSE /\ sent' = {MetadataChanged(publishedTracks, sender)}
       /\ signals' = {}
       /\ last' = Last("DataChannelAvailable", sender, "none")
       /\ UNCHANGED <<participants, peers, publishedTracks, streamsMetadata,
                      lostOffers, pong>>
       /\ UNCHANGED <<layerVars, flatVars>>

\* type: the type of the event in the message, or MalformedJSON for a message
\* that UnmarshalJSON rejects.
processDataChannelMessage(sender, type) ==
  \/ /\ ~getParticipant(sender)
     /\ Ignored("DataChannelMessage", sender, "no participant")
  \/ /\ getParticipant(sender)
     /\ type = MalformedJSON
     /\ Ignored("DataChannelMessage", sender, "malformed")
  \/ /\ getParticipant(sender)
     /\ type = UnknownType
     /\ Ignored("DataChannelMessage", sender, "unknown type")
  \/ /\ getParticipant(sender)
     /\ type = FocusCallTrackSubscription
     /\ \E msg \in TrackSubscriptionInputs :
          processTrackSubscriptionMessage(sender, msg)
  \/ /\ getParticipant(sender)
     /\ type = FocusCallPong
     /\ processPongMessage(sender)
  \/ /\ getParticipant(sender)
     /\ type = FocusCallNegotiate
     /\ \E descriptionType \in CallDataTypes,
           metadata \in StreamMetadataInputs, applied \in BOOLEAN :
          \* nothing is applied for a description that is no offer and no answer
          /\ descriptionType \notin {CallDataTypeOffer, CallDataTypeAnswer} => ~applied
          /\ processNegotiateMessage(sender, descriptionType, metadata, applied)
  \/ /\ getParticipant(sender)
     /\ type = FocusCallSDPStreamMetadataChanged
     /\ \E metadata \in StreamMetadataInputs :
          processMetadataMessage(sender, metadata)

\* The events a peer delivers to the conference. A peer that was created
\* may still have events queued after its participant was removed.
LeftCall(sender, reason) ==
  sender \in peers /\ processLeftTheCallMessage(sender, reason)
NewTrackPublished(trackID, layer) ==
  /\ PublisherOf(trackID) \in peers
  /\ layer \in PublishLayers(trackID)
  /\ processNewTrackPublishedMessage(PublisherOf(trackID), trackID, layer)
PublishedTrackFailed(trackID) ==
  /\ PublisherOf(trackID) \in peers
  /\ processPublishedTrackFailedMessage(PublisherOf(trackID), trackID)
DataChannelMessage(sender, type) ==
  sender \in peers /\ processDataChannelMessage(sender, type)

NewICECandidate(sender) ==
  sender \in peers /\ processNewICECandidateMessage(sender)
ICEGatheringComplete(sender) ==
  sender \in peers /\ processICEGatheringCompleteMessage(sender)
\* The participant's keepalive loop takes a pong out of its Pong channel.
KeepaliveReceivesPong(p) ==
  /\ pong[p] > 0
  /\ pong' = [pong EXCEPT ![p] = @ - 1]
  /\ last' = Last("KeepaliveReceivesPong", p, "none")
  /\ UNCHANGED <<participants, peers, publishedTracks, streamsMetadata, sent,
                 signals, dataChannel, lostOffers>>
  /\ UNCHANGED <<layerVars, flatVars>>
RenegotiationRequired(sender) ==
  sender \in peers /\ processRenegotiationRequiredMessage(sender)
\* The peer's data channel opens and the peer queues DataChannelAvailable.
DataChannelOpens(p) ==
  /\ p \in peers
  /\ dataChannel[p] = DataChannelClosed
  /\ dataChannel' = [dataChannel EXCEPT ![p] = DataChannelOpen]
  /\ last' = Last("DataChannelOpens", p, "none")
  /\ UNCHANGED <<participants, peers, publishedTracks, streamsMetadata, sent,
                 signals, lostOffers, pong>>
  /\ UNCHANGED <<layerVars, flatVars>>
DataChannelAvailable(sender) ==
  /\ sender \in peers
  /\ dataChannel[sender] = DataChannelOpen
  /\ dataChannel' = [dataChannel EXCEPT ![sender] = DataChannelAnnounced]
  /\ processDataChannelAvailableMessage(sender)

\* The conference with the peers' data channels: joining, leaving,
\* publishing, ICE, renegotiation, the opening of the data channels and the
\* keepalive.
ChannelNext ==
  \/ \E p \in PIDs : Invite(p)
  \/ \E sender \in PIDs, reason \in Reasons : LeftCall(sender, reason)
  \/ \E trackID \in TrackIDs, layer \in SimulcastLayers :
       NewTrackPublished(trackID, layer)
  \/ \E trackID \in TrackIDs : PublishedTrackFailed(trackID)
  \/ \E sender \in PIDs : RenegotiationRequired(sender)
  \/ \E p \in PIDs : DataChannelOpens(p)
  \/ \E sender \in PIDs : DataChannelAvailable(sender)
  \/ \E sender \in PIDs : NewICECandidate(sender)
  \/ \E sender \in PIDs : ICEGatheringComplete(sender)
  \/ \E sender \in PIDs, type \in KeepaliveMessageTypes :
       DataChannelMessage(sender, type)
  \/ \E p \in PIDs : KeepaliveReceivesPong(p)

ConfNext ==
  \/ \E p \in PIDs : Invite(p)
  \/ \E sender \in PIDs, reason \in Reasons : LeftCall(sender, reason)
  \/ \E trackID \in TrackIDs, layer \in SimulcastLayers :
       NewTrackPublished(trackID, layer)
  \/ \E trackID \in TrackIDs : PublishedTrackFailed(trackID)
  \/ \E sender \in PIDs, type \in ControlMessageTypes :
       DataChannelMessage(sender, type)

(***************************************************************************)
(* Flat conference (peer_message_processor.go): every participant holds    *)
(* its own publishedTracks map, and RTCP received for a track is written   *)
(* to the track's publisher behind a key-frame gate.                       *)
(***************************************************************************)
\* Milliseconds the clock advances in one step, and the last instant.
TickMs == 250
MaxTime == 1501
\* RTCP events remembered.
MaxRtcp == 2

\* const sendKeyFrameInterval = 500 * time.Millisecond
sendKeyFrameInterval == 500

\* time.Time{}: the zero instant, before every instant of the clock.
ZeroTime == 0

NotPublished == [Published |-> FALSE, canSendKeyframeAt |-> ZeroTime]

FlatIdle ==
  /\ now = 1
  /\ flatPublished = [p \in PIDs |-> [t \in TrackIDs |-> NotPublished]]
  /\ rtcpWrites = [p \in PIDs |-> [t \in TrackIDs |-> <<>>]]
  /\ rtcpSeen = <<>>

\* Time passes.
Tick ==
  /\ now + TickMs <= MaxTime
  /\ now' = now + TickMs
  /\ UNCHANGED <<flatPublished, rtcpWrites, rtcpSeen>>
  /\ UNCHANGED <<layerVars, confVars>>

\* processor.go processNewTrackPublishedMessage: PublishedTrack{track: ...}
\* leaves canSendKeyframeAt the zero instant.
flatNewTrackPublished(participant, trackID) ==
  /\ flatPublished' =
       IF flatPublished[participant][trackID].Published
       THEN flatPublished
       ELSE [flatPublished EXCEPT ![participant][trackID] =
               [Published |-> TRUE, canSendKeyframeAt |-> ZeroTime]]
  /\ UNCHANGED <<now, rtcpWrites, rtcpSeen>>
  /\ UNCHANGED <<layerVars, confVars>>

\* processor.go processPublishedTrackFailedMessage
flatPublishedTrackFailed(participant, trackID) ==
  /\ flatPublished' = [flatPublished EXCEPT ![participant][trackID] = NotPublished]
  /\ UNCHANGED <<now, rtcpWrites, rtcpSeen>>
  /\ UNCHANGED <<layerVars, confVars>>

\* The inverse test: the gate is not after the instant.
GateNotAfter(canSendKeyframeAt, instant) == canSendKeyframeAt <= instant

\* published.canSendKeyframeAt.After(time.Now())
GateAfter(canSendKeyframeAt, instant) == canSendKeyframeAt > instant

\* published.canSendKeyframeAt = ...: published is the copy of the map's
\* value that the lookup returned, so the map keeps the value it had.
AssignGate(published, participant, trackID, instant) == published

\* processor.go processRTCPPackets; failed[p]: WriteRTCP to p returns an error.
processRTCPPackets(trackID, failed) ==
  LET called(p) ==
        /\ flatPublished[p][trackID].Published
        /\ GateAfter(flatPublished[p][trackID].canSendKeyframeAt, now)
      written(p) == called(p) /\ ~failed[p]
      hit == \E p \in PIDs : flatPublished[p][trackID].Published
  IN /\ \A p \in PIDs : Len(rtcpWrites[p][trackID]) < MaxRtcp
     /\ rtcpWrites' =
          [p \in PIDs |->
             IF written(p)
             THEN [rtcpWrites[p] EXCEPT ![trackID] = Append(@, now)]
             ELSE rtcpWrites[p]]
     /\ flatPublished' =
          [p \in PIDs |->
             IF written(p)
             THEN AssignGate(flatPublished, p, trackID, now + sendKeyFrameInterval)[p]
             ELSE flatPublished[p]]
     /\ rtcpSeen' =
          IF hit /\ Len(rtcpSeen) < MaxRtcp
          THEN Append(rtcpSeen,
                 [track |-> trackID, at |-> now,
                  open |-> {p \in PIDs :
                              /\ flatPublished[p][trackID].Published
                              /\ now >= flatPublished[p][trackID].canSendKeyframeAt},
                  called |-> {p \in PIDs : called(p)}])
          ELSE rtcpSeen
     /\ UNCHANGED now
     /\ UNCHANGED <<layerVars, confVars>>

FlatNext ==
  \/ Tick
  \/ \E p \in PIDs, t \in TrackIDs : flatNewTrackPublished(p, t)
  \/ \E p \in PIDs, t \in TrackIDs : flatPublishedTrackFailed(p, t)
  \/ \E t \in TrackIDs, failed \in [PIDs -> BOOLEAN] : processRTCPPackets(t, failed)

(***************************************************************************)
(* Specifications.                                                         *)
(***************************************************************************)
\* The tracker-based conference.
Init == LayerIdle /\ ConfIdle /\ FlatIdle
Next == ConfNext
Spec == Init /\ [][Next]_vars

\* Layer selection on its own.
InitLayer == LayerInit /\ ConfIdle /\ FlatIdle
NextLayer == CallCalculateDesiredLayer \/ CallGetOptimalLayer
SpecLayer == InitLayer /\ [][NextLayer]_vars

\* The conference with the peers' data channels.
InitChannel == LayerIdle /\ ConfIdle /\ FlatIdle
NextChannel == ChannelNext
SpecChannel == InitChannel /\ [][NextChannel]_vars

\* The flat conference.
InitFlat == LayerIdle /\ ConfIdle /\ FlatIdle
NextFlat == FlatNext
SpecFlat == InitFlat /\ [][NextFlat]_vars

(***************************************************************************)
(* Properties.                                                             *)
(***************************************************************************)
FullSize == fnTrack.Metadata.MaxWidth + fnTrack.Metadata.MaxHeight
RequestedSize == fnReq.Width + fnReq.Height
AvailableLayers == Range(fnTrack.Layers)
\* A video track that has at least one of the three simulcast layers.
SimulcastVideo ==
  /\ fnTrack.Kind = RTPCodecTypeVideo
  /\ AvailableLayers \cap
       {SimulcastLayerLow, SimulcastLayerMedium, SimulcastLayerHigh} # {}
\* The first layer of a list that is among the available layers.
FirstAvailable(list) ==
  list[Min({i \in DOMAIN list : list[i] \in AvailableLayers})]

\* C1: every published track recorded in the tracker has an owner that is
\* currently a member of the participant registry.
C1_OwnerIsParticipant ==
  \A t \in TrackIDs :
    publishedTracks[t].Published => publishedTracks[t].Owner \in participants

\* C2: every subscription of a published track belongs to a registered
\* participant that is not the owner of the track.
C2_SubscriberIsOtherParticipant ==
  \A t \in TrackIDs, p \in PIDs :
    (publishedTracks[t].Published /\ publishedTracks[t].Subscriptions[p].Subscribed)
      => (p \in participants /\ p # publishedTracks[t].Owner)

\* C3: the layer GetOptimalLayer returns is None or one of the track's
\* available layers, whatever the track and the requested size.
C3_LayerIsNoneOrAvailable ==
  fnLayer # Pending =>
    (fnLayer = SimulcastLayerNone \/ fnLayer \in AvailableLayers)

\* C4: the desired layer is Low when the publisher size P or the requested
\* size R is zero, else High when P/R <= 1, Medium when 1 < P/R <= 2 and Low
\* when P/R > 2.
C4_DesiredLayerByRatio ==
  fnDesired # Pending =>
    fnDesired =
      IF FullSize = 0 \/ RequestedSize = 0 THEN SimulcastLayerLow
      ELSE IF FullSize <= RequestedSize THEN SimulcastLayerHigh
      ELSE IF FullSize <= 2 * RequestedSize THEN SimulcastLayerMedium
      ELSE SimulcastLayerLow

\* C5: for a video track with at least one of Low, Medium, High, the layer
\* returned is the first of [desired, Medium, Low, High] that is available.
C5_FirstOfPriorityList ==
  (fnLayer # Pending /\ SimulcastVideo) =>
    fnLayer = FirstAvailable(
      <<calculateDesiredLayer(fnTrack.Metadata.MaxWidth, fnTrack.Metadata.MaxHeight,
                              fnReq.Width, fnReq.Height),
        SimulcastLayerMedium, SimulcastLayerLow, SimulcastLayerHigh>>)

\* C5 witness: the desired layer is missing and the list falls back to Low
\* although High is available too.
C5_Witness ==
  /\ fnLayer = SimulcastLayerLow
  /\ SimulcastVideo
  /\ SimulcastLayerHigh \in AvailableLayers
  /\ calculateDesiredLayer(fnTrack.Metadata.MaxWidth, fnTrack.Metadata.MaxHeight,
                           fnReq.Width, fnReq.Height) = SimulcastLayerMedium

\* C6: an audio track, and any track whose layers are empty or exactly
\* {None}, selects None.
C6_AudioOrNoLayersSelectsNone ==
  (/\ fnLayer # Pending
   /\ \/ fnTrack.Kind = RTPCodecTypeAudio
      \/ AvailableLayers \subseteq {SimulcastLayerNone})
    => fnLayer = SimulcastLayerNone

\* C7 as claimed: for a video simulcast track, a zero publisher size or a
\* zero requested size selects Low.
C7_ZeroSizeSelectsLow ==
  (fnLayer # Pending /\ SimulcastVideo /\ (FullSize = 0 \/ RequestedSize = 0))
    => fnLayer = SimulcastLayerLow

\* C7 amended: for a video simulcast track, a zero publisher size or a zero
\* requested size makes Low the desired layer and selects Low when the track
\* has a Low layer, otherwise Medium when it has one, otherwise High.
C7_ZeroSizeSelectsLowestPreferred ==
  (SimulcastVideo /\ (FullSize = 0 \/ RequestedSize = 0))
    => /\ fnDesired # Pending => fnDesired = SimulcastLayerLow
       /\ fnLayer # Pending =>
            fnLayer =
              IF SimulcastLayerLow \in AvailableLayers THEN SimulcastLayerLow
              ELSE IF SimulcastLayerMedium \in AvailableLayers
                   THEN SimulcastLayerMedium
              ELSE SimulcastLayerHigh

\* C7 witness: a subscribe without a size to a track with metadata and with
\* the low and the high layer got Low.
C7_Witness ==
  /\ fnLayer = SimulcastLayerLow
  /\ SimulcastVideo
  /\ RequestedSize = 0
  /\ FullSize > 0
  /\ SimulcastLayerHigh \in AvailableLayers

\* C8 as claimed: for a video simulcast track, a non-zero requested size
\* above the non-zero publisher size selects High.
C8_LargerRequestSelectsHigh ==
  (/\ fnLayer # Pending
   /\ SimulcastVideo
   /\ FullSize # 0
   /\ RequestedSize > FullSize)
    => fnLayer = SimulcastLayerHigh

\* C8 amended: for a video simulcast track, a non-zero requested size above
\* the non-zero publisher size makes High the desired layer and selects High
\* when the track has a High layer, otherwise Medium when it has one,
\* otherwise Low.
C8_LargerRequestSelectsHighestPreferred ==
  (/\ SimulcastVideo
   /\ FullSize # 0
   /\ RequestedSize > FullSize)
    => /\ fnDesired # Pending => fnDesired = SimulcastLayerHigh
       /\ fnLayer # Pending =>
            fnLayer =
              IF SimulcastLayerHigh \in AvailableLayers THEN SimulcastLayerHigh
              ELSE IF SimulcastLayerMedium \in AvailableLayers
                   THEN SimulcastLayerMedium
              ELSE SimulcastLayerLow

\* C8 witness: a request above the publisher size got High from a track that
\* also has the low layer.
C8_Witness ==
  /\ fnLayer = SimulcastLayerHigh
  /\ SimulcastVideo
  /\ FullSize # 0
  /\ RequestedSize > FullSize
  /\ SimulcastLayerLow \in AvailableLayers

\* C9: after NewTrackPublished, PublishedTrackFailed, a metadata_changed
\* message or a negotiate message carrying stream metadata, the handler has
\* sent metadata_changed to every registered participant but the originator,
\* and none to the originator.
C9_MetadataBroadcast ==
  (\/ last.kind \in {"NewTrackPublished", "PublishedTrackFailed"}
   \/ /\ last.kind = "DataChannelMessage"
      /\ last.detail \in {"metadata_changed", "negotiate with stream metadata"})
    => /\ \A p \in participants \ {last.sender} :
            \E m \in sent : m.to = p /\ m.type = "metadata_changed"
       /\ \A m \in sent : m.type = "metadata_changed" => m.to # last.sender

\* C10: the upstream RTCP writes to the publisher of a track are at least
\* sendKeyFrameInterval apart, so no window of that length holds two.
C10_OneWritePerInterval ==
  \A p \in PIDs, t \in TrackIDs :
    \A i, j \in DOMAIN rtcpWrites[p][t] :
      i < j => rtcpWrites[p][t][j] - rtcpWrites[p][t][i] >= sendKeyFrameInterval

\* C10 witness: two RTCP events for the same published track were handled
\* less than sendKeyFrameInterval apart.
C10_Witness ==
  \E i, j \in DOMAIN rtcpSeen :
    /\ i < j
    /\ rtcpSeen[i].track = rtcpSeen[j].track
    /\ rtcpSeen[j].at - rtcpSeen[i].at < sendKeyFrameInterval

\* C11: an RTCPReceived event for a published track is written upstream to
\* the publisher exactly when the current time is at or after the track's
\* key-frame gate, and is not written when the time is before the gate.
C11_WrittenWhenGateOpen ==
  \A i \in DOMAIN rtcpSeen : rtcpSeen[i].called = rtcpSeen[i].open

\* The tracks named by a list of a track_subscription message.
NamedTracks(list) == {list[i].TrackID : i \in DOMAIN list}
\* The last handler was the one of a track_subscription message.
TrackSubscriptionHandled ==
  last.kind = "DataChannelMessage" /\ last.detail = "track_subscription"

\* C12: after a track_subscription message, the sender is subscribed with
\* the newly requested size to every published track the message both
\* unsubscribes and subscribes, and is not subscribed to a track the message
\* only unsubscribes: the unsubscribes are applied before the subscribes.
C12_UnsubscribeBeforeSubscribe ==
  TrackSubscriptionHandled =>
    LET msg == last.input
        p == last.sender
    IN /\ \A i \in DOMAIN msg.Subscribe :
            LET e == msg.Subscribe[i]
                t == publishedTracks[e.TrackID]
            IN (t.Published /\ e.TrackID \in NamedTracks(msg.Unsubscribe)) =>
                 /\ t.Subscriptions[p].Subscribed
                 /\ t.Subscriptions[p].Width = IntField(e.Width)
                 /\ t.Subscriptions[p].Height = IntField(e.Height)
       /\ \A t \in NamedTracks(msg.Unsubscribe) \ NamedTracks(msg.Subscribe) :
            ~publishedTracks[t].Subscriptions[p].Subscribed

\* C12 witness: a message that unsubscribed and subscribed the same
\* published video track with a size left the sender subscribed with it.
C12_Witness ==
  /\ TrackSubscriptionHandled
  /\ \E i \in DOMAIN last.input.Subscribe :
       LET e == last.input.Subscribe[i]
       IN /\ e.TrackID \in NamedTracks(last.input.Unsubscribe)
          /\ e.Width # Missing
          /\ publishedTracks[e.TrackID].Published
          /\ publishedTracks[e.TrackID].Subscriptions[last.sender].Subscribed
          /\ publishedTracks[e.TrackID].Subscriptions[last.sender].Width =
               IntField(e.Width)

\* C13: in a track_subscription batch, a subscribe of a track that is not
\* published and an unsubscribe of an unknown track change nothing of that
\* track, a subscribe that repeats the sender's subscription leaves it as it
\* was, nobody else's subscription changes, and every subscribe entry that
\* names a published track leaves the sender subscribed to it with the
\* entry's size, whatever failed before it in the list.
C13_FailedEntryDoesNotStopBatch ==
  [][(last'.kind = "DataChannelMessage" /\ last'.detail = "track_subscription") =>
       LET msg == last'.input
           p == last'.sender
       IN /\ \A t \in TrackIDs :
               ~publishedTracks[t].Published => publishedTracks'[t] = publishedTracks[t]
          /\ \A t \in TrackIDs, q \in PIDs \ {p} :
               publishedTracks'[t].Subscriptions[q] = publishedTracks[t].Subscriptions[q]
          /\ \A i \in DOMAIN msg.Subscribe :
               LET e == msg.Subscribe[i]
                   before == publishedTracks[e.TrackID]
                   after == publishedTracks'[e.TrackID]
               IN /\ before.Published =>
                       /\ after.Subscriptions[p].Subscribed
                       /\ after.Subscriptions[p].Width = IntField(e.Width)
                       /\ after.Subscriptions[p].Height = IntField(e.Height)
                  /\ (/\ before.Subscriptions[p].Subscribed
                      /\ before.Subscriptions[p].Width = IntField(e.Width)
                      /\ before.Subscriptions[p].Height = IntField(e.Height)
                      /\ e.TrackID \notin NamedTracks(msg.Unsubscribe))
                       => after.Subscriptions[p] = before.Subscriptions[p]]_vars

\* C13 witness: a message unsubscribed an unknown track and its first
\* subscribe named a track that is not published, and the sender is
\* subscribed to the track its second subscribe named.
C13_Witness ==
  /\ TrackSubscriptionHandled
  /\ Len(last.input.Subscribe) = 2
  /\ ~publishedTracks[last.input.Subscribe[1].TrackID].Published
  /\ publishedTracks[last.input.Subscribe[2].TrackID].Subscriptions[last.sender].Subscribed
  /\ \E i \in DOMAIN last.input.Unsubscribe :
       ~publishedTracks[last.input.Unsubscribe[i].TrackID].Published

\* C14: a data-channel message that is malformed JSON or has an unknown type
\* leaves the registry, the tracker with its subscriptions and the stored
\* stream metadata unchanged, sends nothing over a data channel or over
\* signaling, and its sender stays registered.
C14_UnparsedMessageChangesNothing ==
  [][(/\ last'.kind = "DataChannelMessage"
      /\ last'.detail \in {"malformed", "unknown type"}) =>
       /\ participants' = participants
       /\ publishedTracks' = publishedTracks
       /\ streamsMetadata' = streamsMetadata
       /\ sent' = {}
       /\ signals' = {}
       /\ last'.sender \in participants']_vars

\* C14 witness: a message of unknown type was handled while its sender was
\* subscribed to a track and stream metadata was stored.
C14_Witness ==
  /\ last.kind = "DataChannelMessage"
  /\ last.detail = "unknown type"
  /\ streamsMetadata # NoStreamMetadata
  /\ \E t \in TrackIDs : publishedTracks[t].Subscriptions[last.sender].Subscribed

\* C15: when DataChannelAvailable of a participant is handled and the
\* participant's negotiate offer could not be sent before, the offer is sent
\* to that participant.
C15_LostOfferSentOnAvailable ==
  (/\ last.kind = "DataChannelAvailable"
   /\ last.detail = "none"
   /\ last.sender \in lostOffers)
    => \E m \in sent :
         /\ m.to = last.sender
         /\ m.type = "negotiate"
         /\ m.description = CallDataTypeOffer

NegotiateHandled ==
  /\ last.kind = "DataChannelMessage"
  /\ last.detail \in {"negotiate", "negotiate with stream metadata"}

\* C17: a negotiate message with an offer that applies is answered by
\* exactly one negotiate message of type answer to its sender; an offer that
\* fails to apply and an answer are not answered; nothing goes to another
\* participant or over signaling.
C17_OfferAnsweredOnce ==
  NegotiateHandled =>
    /\ signals = {}
    /\ \A m \in sent :
         m.to = last.sender /\ m.type = "negotiate" /\ m.description = CallDataTypeAnswer
    /\ Cardinality(sent) =
         IF last.input.Type = CallDataTypeOffer /\ last.input.Applied THEN 1 ELSE 0

\* C17 witness: an offer of one participant was answered while the other
\* participant was registered.
C17_Witness ==
  /\ NegotiateHandled
  /\ last.input.Type = CallDataTypeOffer
  /\ last.input.Applied
  /\ participants = PIDs
  /\ sent # {}

\* C18: after LeftCall(reason) of a registered participant the participant
\* is not in the registry and exactly one signaling message was emitted: a
\* Hangup with that reason to the participant's user id, device id, call id
\* and remote session id, given when the participant was already removed.
C18_HangupAfterRemoval ==
  (last.kind = "LeftCall" /\ last.detail # "no participant") =>
    /\ last.sender \notin participants
    /\ Cardinality(signals) = 1
    /\ \A m \in signals :
         /\ m.type = "Hangup"
         /\ m.reason = last.detail
         /\ m.to.UserID = ID(last.sender).UserID
         /\ m.to.DeviceID = ID(last.sender).DeviceID
         /\ m.to.CallID = ID(last.sender).CallID
         /\ m.to.RemoteSessionID = RemoteSessionID(last.sender)
         /\ last.sender \notin m.registry

\* C18 witness: a participant left with a keepalive timeout while the other
\* participant stayed, and a Hangup was emitted.
C18_Witness ==
  /\ last.kind = "LeftCall"
  /\ last.detail = "keepalive_timeout"
  /\ participants # {}
  /\ \E m \in signals : m.type = "Hangup"

\* C20: a negotiate message that is rejected (a description type that is
\* neither offer nor answer, or an SDP that fails to apply) leaves the stored
\* stream metadata and the tracker unchanged.
C20_RejectedNegotiateChangesNothing ==
  [][(/\ last'.kind = "DataChannelMessage"
      /\ last'.detail \in {"negotiate", "negotiate with stream metadata"}
      /\ \/ last'.input.Type \notin {CallDataTypeOffer, CallDataTypeAnswer}
         \/ ~last'.input.Applied) =>
       /\ streamsMetadata' = streamsMetadata
       /\ publishedTracks' = publishedTracks]_vars

\* The events whose handlers look the sender up in the registry first.
LookedUpEvents ==
  {"LeftCall", "NewICECandidate", "ICEGatheringComplete", "RenegotiationRequired",
   "DataChannelMessage", "DataChannelAvailable"}

\* C21: a LeftCall, NewICECandidate, ICEGatheringComplete,
\* RenegotiationRequired, DataChannelMessage or DataChannelAvailable event
\* whose sender is not in the registry sends nothing over signaling or a data
\* channel and changes no conference state; so a second LeftCall of a removed
\* participant emits no second Hangup.
C21_UnregisteredSenderIgnored ==
  [][(/\ last' # last
      /\ last'.kind \in LookedUpEvents
      /\ last'.sender \notin participants) =>
       /\ sent' = {}
       /\ signals' = {}
       /\ participants' = participants
       /\ publishedTracks' = publishedTracks
       /\ streamsMetadata' = streamsMetadata
       /\ lostOffers' = lostOffers
       /\ pong' = pong]_vars

\* C21 witness: a second LeftCall came from a participant that was already
\* removed, while the other participant was registered and published a
\* track, and no Hangup was emitted.
C21_Witness ==
  /\ last.kind = "LeftCall"
  /\ last.sender \in peers \ participants
  /\ signals = {}
  /\ \E t \in TrackIDs :
       publishedTracks[t].Published /\ publishedTracks[t].Owner \in participants

\* The last handler was the one of a pong message.
PongHandled == last.kind = "DataChannelMessage" /\ last.detail = "pong"

\* C22: a pong message of a registered participant can always be handled,
\* whatever is in the participant's Pong channel; handling it puts a pong
\* into the channel when the channel has room and drops it otherwise, sends
\* nothing and changes no other conference state.
C22_PongNeverBlocks ==
  /\ [](\A p \in participants \cap peers :
          ENABLED DataChannelMessage(p, FocusCallPong))
  /\ [][(last'.kind = "DataChannelMessage" /\ last'.detail = "pong") =>
          LET p == last'.sender
          IN /\ pong[p] < PongCapacity => pong'[p] = pong[p] + 1
             /\ pong[p] >= PongCapacity => pong'[p] = pong[p]
             /\ \A q \in PIDs \ {p} : pong'[q] = pong[q]
             /\ sent' = {}
             /\ signals' = {}
             /\ participants' = participants
             /\ publishedTracks' = publishedTracks
             /\ streamsMetadata' = streamsMetadata
             /\ dataChannel' = dataChannel
             /\ lostOffers' = lostOffers]_vars

\* C22 witness: a pong came while the participant's Pong channel was full
\* and was dropped.
C22_Witness ==
  /\ PongHandled
  /\ last.input = "dropped"
  /\ pong[last.sender] = PongCapacity
  /\ last.sender \in participants

====
